---- MODULE Spec2Model ----
(***************************************************************************)
(* Streams, Mixer and Reactor of lab_device.                               *)
(*                                                                         *)
(* The repository holds two copies of the device code: src/device.cpp and  *)
(* src/unnamed/part_000.  Stream, Device and Mixer are the same in both;   *)
(* Reactor differs (constructor and split factor).  A Reactor of the model *)
(* carries the copy it was built from in its `copy` field, so that both    *)
(* copies are explored.                                                    *)
(*                                                                         *)
(* A mass flow (a C++ double) is modelled by an integer: the integer n     *)
(* stands for the double n * q, for a unit q on whose multiples the        *)
(* additions and halvings of the code are exact (5 and 10 are 1 and 2     *)
(* with q = 5).  Every operation of the code on flows is a sum, a product  *)
(* with an int or a quotient by a count, so that it commutes with the      *)
(* choice of q.  The finite flows of the model are those of magnitude      *)
(* at most MaxFlow; a step whose finite result is not such a value is      *)
(* outside the model.  The doubles +infinity, -infinity and NaN are values *)
(* of the model too: they stand for themselves and are written as integers *)
(* no finite sum can reach.                                                *)
(*                                                                         *)
(* Stream::mass_flow is not initialized by the constructor.  What a stream *)
(* reads before its first setMassFlow is whatever its storage held: any    *)
(* value of the model, chosen for each stream on its own.                  *)
(***************************************************************************)
EXTENDS Integers, Sequences, FiniteSets, TLC

\* ---------------------------------------------------------------- bounds
NStreams == 3
MaxMixerInputs == 2
MaxOutputs == 2
MaxFlow == 2

\* ------------------------------------------------------ program constants
MIXER_OUTPUTS == 1

Streams == 1..NStreams
Devices == {"d1"}

\* values the harness passes to setMassFlow
SetVals == {-1, 1, 2}
FlowVals == (0 - MaxFlow)..MaxFlow
\* values the harness sets through a vector it got from a getter
HeldVals == {2}
\* what an uninitialized int may hold
GarbageInts == {-1, 0, 1, 2, MaxOutputs + 1}

\* dev, flow, name: the fields of the devices and of the streams.
\* ordinal: the constructor argument of each stream.  last: the last call and
\* its outcome.  acc: per device, the streams of the addInput / addOutput calls
\* that returned normally, in call order.  ret: the vector the caller holds
\* from its last getInputs / getOutputs.  streak: the last call repeated a
\* successful updateOutputs of the same device with no call in between.
VARIABLES dev, flow, last, name, ordinal, acc, ret, streak
vars == <<dev, flow, last, name, ordinal, acc, ret, streak>>

\* ------------------------------------------------------------ arithmetic
\* `size() < i` and `size() == i` with an int i: i is converted to size_t, so
\* a negative i becomes i + 2^64, above every size n a vector can have
SizeLess(n, i) == i < 0 \/ n < i
SizeEq(n, i) == i >= 0 /\ n = i

\* C++ int division (truncation toward zero), b # 0
IntDiv(a, b) ==
  IF (a >= 0) = (b > 0)
    THEN (IF a >= 0 THEN a ELSE 0 - a) \div (IF b > 0 THEN b ELSE 0 - b)
    ELSE 0 - ((IF a >= 0 THEN a ELSE 0 - a) \div (IF b > 0 THEN b ELSE 0 - b))

\* the doubles +infinity, -infinity and NaN.  Every finite flow and every
\* finite sum of the model lies strictly between NegInf and Inf; NaN lies
\* below them, so that NaN >= 0 is false as it is for the double.
Inf == (MaxMixerInputs + 1) * MaxFlow + 1
NegInf == 0 - Inf
NaN == NegInf - 1
IsFinite(x) == x \notin {Inf, NegInf, NaN}
\* what an uninitialized double may hold: every double of the model
GarbageFlows == FlowVals \cup {Inf, NegInf, NaN}

\* double addition a + b
DoublePlus(a, b) ==
  IF a = NaN \/ b = NaN THEN NaN
  ELSE IF {a, b} = {Inf, NegInf} THEN NaN
  ELSE IF a = Inf \/ b = Inf THEN Inf
  ELSE IF a = NegInf \/ b = NegInf THEN NegInf
  ELSE a + b

\* the product x * n of a double and an int converted to double
DoubleTimesInt(x, n) ==
  IF x = NaN THEN NaN
  ELSE IF IsFinite(x) THEN x * n
  ELSE IF n = 0 THEN NaN
  ELSE IF (x = Inf) = (n > 0) THEN Inf ELSE NegInf

\* double division x / k by a count k > 0, for the values of the model
Exact(x, k) == k # 0 /\ (IsFinite(x) => x % k = 0)
DoubleDiv(x, k) == IF IsFinite(x) THEN x \div k ELSE x

\* ---------------------------------------------------------------- Stream
\* std::to_string(int): decimal digits, most significant first, "-" if negative
Digit(n) == <<"0", "1", "2", "3", "4", "5", "6", "7", "8", "9">>[n + 1]

\* mutant: the digits come out least significant first
RECURSIVE Digits_reversed(_)
Digits_reversed(n) == IF n < 10 THEN <<Digit(n)>>
                      ELSE <<Digit(n % 10)>> \o Digits_reversed(n \div 10)

RECURSIVE Digits(_)
Digits(n) == IF n < 10 THEN <<Digit(n)>>
             ELSE Append(Digits(n \div 10), Digit(n % 10))

to_string(k) == IF k < 0 THEN <<"-">> \o Digits(0 - k) ELSE Digits(k)

Stream_setName(nm, s, t) == [nm EXCEPT ![s] = t]
Stream_getName(nm, s) == nm[s]

\* Stream(int s){setName("s"+std::to_string(s));}  mass_flow is not set
Stream_Stream(nm, s, k) == Stream_setName(nm, s, <<"s">> \o to_string(k))

Stream_setMassFlow(f, s, m) == [f EXCEPT ![s] = m]
Stream_getMassFlow(f, s) == f[s]

\* ---------------------------------------------------------- construction
\* Mixer(int inputs_count): Device() {...}: Device() value-initializes the
\* base, whose constructor is implicit, so that the inherited inputAmount and
\* outputAmount are 0; the body sets _inputs_count only
Mixer(inputs_count) ==
  [kind |-> "Mixer", _inputs_count |-> inputs_count,
   inputAmount |-> 0, outputAmount |-> 0,
   inputs |-> <<>>, outputs |-> <<>>]

\* src/device.cpp: the else branch assigns inputAmount again, outputAmount
\* keeps the indeterminate value g
Reactor_device_cpp(isDoubleReactor, g) ==
  [kind |-> "Reactor", copy |-> "device.cpp", isDouble |-> isDoubleReactor,
   inputAmount |-> 1,
   outputAmount |-> IF isDoubleReactor THEN 2 ELSE g,
   inputs |-> <<>>, outputs |-> <<>>]

Reactor_part_000(isDoubleReactor) ==
  [kind |-> "Reactor", copy |-> "part_000", isDouble |-> isDoubleReactor,
   inputAmount |-> 1,
   outputAmount |-> IF isDoubleReactor THEN 2 ELSE 1,
   inputs |-> <<>>, outputs |-> <<>>]

NewDevices ==
  {Mixer(n) : n \in 0..MaxMixerInputs}
    \cup {Reactor_part_000(b) : b \in BOOLEAN}
    \cup {Reactor_device_cpp(b, g) : b \in BOOLEAN, g \in GarbageInts}

\* the last call made by the harness: the operation, the device it was made on
\* (NoDevice for a Stream setter) and "ok" or the exception thrown
NoDevice == "none"
Call(op, i, res) == [op |-> op, d |-> i, res |-> res]
\* the same for a call made through a Device& or Device* to the device
BaseCall(op, i, res) == [op |-> op, d |-> i, res |-> res, via |-> "Device"]

\* the harness numbers its streams with ++streamcounter from 0
RECURSIVE ConstructAll(_, _)
ConstructAll(nm, ss) ==
  IF ss = {} THEN nm
  ELSE LET s == CHOOSE x \in ss : TRUE
       IN ConstructAll(Stream_Stream(nm, s, ordinal[s]), ss \ {s})

\* touched: the caller has changed the vector since it got it
NoReturn == [storage |-> "none", of |-> NoDevice, val |-> <<>>,
             touched |-> FALSE]

InitDevices ==
  /\ acc = [i \in Devices |-> [in |-> <<>>, out |-> <<>>]]
  /\ ret = NoReturn
  /\ streak = FALSE
  /\ last = Call("construct", NoDevice, "ok")

Init ==
  /\ dev \in [Devices -> NewDevices]
  /\ flow \in [Streams -> GarbageFlows]
  /\ ordinal = [s \in Streams |-> s]
  /\ name = ConstructAll([s \in Streams |-> <<>>], Streams)
  /\ InitDevices

\* ------------------------------------------------------------ connection
\* Device::addInput / Device::addOutput: [device after, exception or "ok"]
\* mutant: push_back comes first, the limit is checked afterwards
Device_addInput_pushfirst(d, s) ==
  IF SizeLess(Len(d.inputs), d.inputAmount)
    THEN <<[d EXCEPT !.inputs = Append(@, s)], "ok">>
    ELSE <<[d EXCEPT !.inputs = Append(@, s)], "INPUT STREAM LIMIT!">>

Device_addInput(d, s) ==
  IF SizeLess(Len(d.inputs), d.inputAmount)
    THEN <<[d EXCEPT !.inputs = Append(@, s)], "ok">>
    ELSE <<d, "INPUT STREAM LIMIT!">>

Device_addOutput(d, s) ==
  IF SizeLess(Len(d.outputs), d.outputAmount)
    THEN <<[d EXCEPT !.outputs = Append(@, s)], "ok">>
    ELSE <<d, "OUTPUT STREAM LIMIT!">>

\* getInputs() / getOutputs() return the vector by value: the caller gets new
\* storage ("copy") holding the same shared_ptr elements.  A return by
\* reference would hand out the member itself ("inputs" / "outputs").
\* mutant: the getter returns a reference to the member
Device_getInputs_ref(d) == [storage |-> "inputs", val |-> d.inputs]

Device_getInputs(d) == [storage |-> "copy", val |-> d.inputs]

\* mutant: the getter returns a reference to the member
Device_getOutputs_ref(d) == [storage |-> "outputs", val |-> d.outputs]

Device_getOutputs(d) == [storage |-> "copy", val |-> d.outputs]

Mixer_addInput(d, s) ==
  IF SizeEq(Len(d.inputs), d._inputs_count)
    THEN <<d, "Too much inputs">>
    ELSE <<[d EXCEPT !.inputs = Append(@, s)], "ok">>

\* mutant: the guard compares with MIXER_OUTPUTS + 1, two outputs are accepted
Mixer_addOutput_two(d, s) ==
  IF SizeEq(Len(d.outputs), MIXER_OUTPUTS + 1)
    THEN <<d, "Too much outputs">>
    ELSE <<[d EXCEPT !.outputs = Append(@, s)], "ok">>

Mixer_addOutput(d, s) ==
  IF SizeEq(Len(d.outputs), MIXER_OUTPUTS)
    THEN <<d, "Too much outputs">>
    ELSE <<[d EXCEPT !.outputs = Append(@, s)], "ok">>

\* ---------------------------------------------------------- updateOutputs
RECURSIVE SumFlows(_, _)
SumFlows(f, ins) ==
  IF ins = <<>> THEN 0
  ELSE DoublePlus(SumFlows(f, SubSeq(ins, 1, Len(ins) - 1)), f[ins[Len(ins)]])

\* the range-for over outputs: setMassFlow(m) on each, in order
RECURSIVE SetAll(_, _, _)
SetAll(f, outs, m) ==
  IF outs = <<>> THEN f
  ELSE SetAll([f EXCEPT ![Head(outs)] = m], Tail(outs), m)

\* mutant: the loop assigns (=) instead of accumulating (+=)
Mixer_updateOutputs_assign(d, f) ==
  LET sum_mass_flow == IF d.inputs = <<>> THEN 0
                       ELSE f[d.inputs[Len(d.inputs)]] IN
  IF d.outputs = <<>>
    THEN <<f, "Should set outputs before update">>
    ELSE <<SetAll(f, d.outputs, DoubleDiv(sum_mass_flow, Len(d.outputs))), "ok">>

\* mutant: no check for empty outputs; the quotient is computed and never used
Mixer_updateOutputs_nocheck(d, f) ==
  LET sum_mass_flow == SumFlows(f, d.inputs) IN
  IF d.outputs = <<>>
    THEN <<f, "ok">>
    ELSE <<SetAll(f, d.outputs, DoubleDiv(sum_mass_flow, Len(d.outputs))), "ok">>

\* mutant: an empty inputs vector is refused like an empty outputs vector
Mixer_updateOutputs_needinputs(d, f) ==
  LET sum_mass_flow == SumFlows(f, d.inputs) IN
  IF d.outputs = <<>> \/ d.inputs = <<>>
    THEN <<f, "Should set outputs before update">>
    ELSE <<SetAll(f, d.outputs, DoubleDiv(sum_mass_flow, Len(d.outputs))), "ok">>

\* the range-for over outputs with setMassFlow(getMassFlow() + m) on each
RECURSIVE AddAll(_, _, _)
AddAll(f, outs, m) ==
  IF outs = <<>> THEN f
  ELSE AddAll([f EXCEPT ![Head(outs)] = @ + m], Tail(outs), m)

\* mutant: each output accumulates its share on top of the flow it carries
Mixer_updateOutputs_accumulate(d, f) ==
  LET sum_mass_flow == SumFlows(f, d.inputs) IN
  IF d.outputs = <<>>
    THEN <<f, "Should set outputs before update">>
    ELSE <<AddAll(f, d.outputs, DoubleDiv(sum_mass_flow, Len(d.outputs))), "ok">>

\* mutant: the inputs are emptied (set to 0) once they have been summed
Mixer_updateOutputs_drain(d, f) ==
  LET sum_mass_flow == SumFlows(f, d.inputs) IN
  IF d.outputs = <<>>
    THEN <<f, "Should set outputs before update">>
    ELSE <<SetAll(SetAll(f, d.inputs, 0), d.outputs,
                  DoubleDiv(sum_mass_flow, Len(d.outputs))), "ok">>

\* [flows after, exception or "ok"]
Mixer_updateOutputs(d, f) ==
  LET sum_mass_flow == SumFlows(f, d.inputs) IN
  IF d.outputs = <<>>
    THEN <<f, "Should set outputs before update">>
    ELSE <<SetAll(f, d.outputs, DoubleDiv(sum_mass_flow, Len(d.outputs))), "ok">>

\* src/device.cpp: inputMass * (1/outputAmount), an int quotient
outputLocal_device_cpp(inputMass, outputAmount) ==
  DoubleTimesInt(inputMass, IntDiv(1, outputAmount))

\* src/unnamed/part_000: inputMass * (1.0/outputAmount)
outputLocal_part_000(inputMass, outputAmount) ==
  DoubleDiv(inputMass, outputAmount)

outputLocal(d, inputMass) ==
  IF d.copy = "device.cpp"
    THEN outputLocal_device_cpp(inputMass, d.outputAmount)
    ELSE outputLocal_part_000(inputMass, d.outputAmount)

\* for(int i = 0; i < outputAmount; i++) outputs.at(i)->setMassFlow(outputLocal)
\* [flows after, exception or "ok"]
RECURSIVE ReactorLoop(_, _, _, _)
ReactorLoop(d, f, inputMass, i) ==
  IF ~(i < d.outputAmount) THEN <<f, "ok">>
  ELSE IF ~(i < Len(d.outputs)) THEN <<f, "std::out_of_range">>
  ELSE ReactorLoop(d,
         [f EXCEPT ![d.outputs[i + 1]] = outputLocal(d, inputMass)],
         inputMass, i + 1)

Reactor_updateOutputs(d, f) ==
  IF Len(d.inputs) = 0 THEN <<f, "std::out_of_range">>
  ELSE ReactorLoop(d, f, f[d.inputs[1]], 0)

\* ---------------------------------------------------------------- actions
\* addInput and addOutput are not virtual: the static type of the expression
\* the call is made on selects the function.  d.addInput(s) on an object of
\* its own type: Mixer::addInput for a Mixer, the inherited Device::addInput
\* for a Reactor
addInput(i, s) ==
  LET r == IF dev[i].kind = "Mixer" THEN Mixer_addInput(dev[i], s)
           ELSE Device_addInput(dev[i], s) IN
  /\ dev' = [dev EXCEPT ![i] = r[1]]
  /\ last' = Call("addInput", i, r[2])
  /\ acc' = IF r[2] = "ok" THEN [acc EXCEPT ![i].in = Append(@, s)] ELSE acc
  /\ streak' = FALSE
  /\ UNCHANGED <<flow, name, ordinal, ret>>

addOutput(i, s) ==
  LET r == IF dev[i].kind = "Mixer" THEN Mixer_addOutput(dev[i], s)
           ELSE Device_addOutput(dev[i], s) IN
  /\ Len(r[1].outputs) <= MaxOutputs
  /\ dev' = [dev EXCEPT ![i] = r[1]]
  /\ last' = Call("addOutput", i, r[2])
  /\ acc' = IF r[2] = "ok" THEN [acc EXCEPT ![i].out = Append(@, s)] ELSE acc
  /\ streak' = FALSE
  /\ UNCHANGED <<flow, name, ordinal, ret>>

\* d.addInput(s) through a Device& or a Device*: Device::addInput, whatever
\* the object is
addInput_as_Device(i, s) ==
  LET r == Device_addInput(dev[i], s) IN
  /\ dev' = [dev EXCEPT ![i] = r[1]]
  /\ last' = BaseCall("addInput", i, r[2])
  /\ acc' = IF r[2] = "ok" THEN [acc EXCEPT ![i].in = Append(@, s)] ELSE acc
  /\ streak' = FALSE
  /\ UNCHANGED <<flow, name, ordinal, ret>>

addOutput_as_Device(i, s) ==
  LET r == Device_addOutput(dev[i], s) IN
  /\ Len(r[1].outputs) <= MaxOutputs
  /\ dev' = [dev EXCEPT ![i] = r[1]]
  /\ last' = BaseCall("addOutput", i, r[2])
  /\ acc' = IF r[2] = "ok" THEN [acc EXCEPT ![i].out = Append(@, s)] ELSE acc
  /\ streak' = FALSE
  /\ UNCHANGED <<flow, name, ordinal, ret>>

\* the values updateOutputs works with are values of the model
InModel(d, f) ==
  IF d.kind = "Mixer"
    THEN /\ SumFlows(f, d.inputs) \in GarbageFlows
         /\ d.outputs # <<>> => Exact(SumFlows(f, d.inputs), Len(d.outputs))
    ELSE (d.inputs # <<>> /\ d.outputAmount > 0 /\ d.copy = "part_000")
           => Exact(f[d.inputs[1]], d.outputAmount)

updateOutputs(i) ==
  LET r == IF dev[i].kind = "Mixer" THEN Mixer_updateOutputs(dev[i], flow)
           ELSE Reactor_updateOutputs(dev[i], flow) IN
  /\ InModel(dev[i], flow)
  /\ flow' = r[1]
  /\ last' = Call("updateOutputs", i, r[2])
  /\ streak' = (r[2] = "ok" /\ last = Call("updateOutputs", i, "ok"))
  /\ UNCHANGED <<dev, name, ordinal, acc, ret>>

setMassFlow(s, m) ==
  /\ flow' = Stream_setMassFlow(flow, s, m)
  /\ last' = Call("setMassFlow", NoDevice, "ok")
  /\ streak' = FALSE
  /\ UNCHANGED <<dev, name, ordinal, acc, ret>>

getInputs(i) ==
  LET r == Device_getInputs(dev[i]) IN
  /\ ret' = [storage |-> r.storage, of |-> i, val |-> r.val,
             touched |-> FALSE]
  /\ last' = Call("getInputs", i, "ok")
  /\ streak' = FALSE
  /\ UNCHANGED <<dev, flow, name, ordinal, acc>>

getOutputs(i) ==
  LET r == Device_getOutputs(dev[i]) IN
  /\ ret' = [storage |-> r.storage, of |-> i, val |-> r.val,
             touched |-> FALSE]
  /\ last' = Call("getOutputs", i, "ok")
  /\ streak' = FALSE
  /\ UNCHANGED <<dev, flow, name, ordinal, acc>>

\* the caller changes the vector it holds to v (push_back, pop_back, swap):
\* this writes the storage the vector lives in
WriteReturned(v) ==
  /\ ret.storage # "none"
  /\ ~ret.touched
  /\ ret' = [ret EXCEPT !.val = v, !.touched = TRUE]
  /\ dev' = IF ret.storage = "inputs"
               THEN [dev EXCEPT ![ret.of].inputs = v]
             ELSE IF ret.storage = "outputs"
               THEN [dev EXCEPT ![ret.of].outputs = v]
             ELSE dev
  /\ last' = Call("writeReturned", ret.of, "ok")
  /\ streak' = FALSE
  /\ UNCHANGED <<flow, name, ordinal, acc>>

returned_push_back(s) == WriteReturned(Append(ret.val, s))

returned_pop_back ==
  /\ ret.val # <<>>
  /\ WriteReturned(SubSeq(ret.val, 1, Len(ret.val) - 1))

returned_swap ==
  /\ Len(ret.val) >= 2
  /\ WriteReturned(<<ret.val[2], ret.val[1]>> \o SubSeq(ret.val, 3, Len(ret.val)))

\* returned[k]->setMassFlow(m): the element is a shared_ptr to the stream
returned_setMassFlow(k, m) ==
  /\ flow' = Stream_setMassFlow(flow, ret.val[k], m)
  /\ last' = Call("setMassFlow", NoDevice, "ok")
  /\ streak' = FALSE
  /\ UNCHANGED <<dev, name, ordinal, acc, ret>>

Next ==
  \/ \E i \in Devices, s \in Streams : addInput(i, s)
  \/ \E i \in Devices, s \in Streams : addOutput(i, s)
  \/ \E i \in Devices, s \in Streams : addInput_as_Device(i, s)
  \/ \E i \in Devices, s \in Streams : addOutput_as_Device(i, s)
  \/ \E i \in Devices : updateOutputs(i)
  \/ \E s \in Streams, m \in SetVals : setMassFlow(s, m)

Spec == Init /\ [][Next]_vars

\* the harness also reads the vectors back and works on what it got: it makes
\* its connection calls while it holds no vector, gets one, works on it and
\* lets it go out of scope
returned_release ==
  /\ ret.storage # "none"
  /\ ret' = NoReturn
  /\ last' = Call("release", ret.of, "ok")
  /\ streak' = FALSE
  /\ UNCHANGED <<dev, flow, name, ordinal, acc>>

Getters_addInput(i, s) ==
  /\ ret = NoReturn
  /\ addInput(i, s)

Getters_addOutput(i, s) ==
  /\ ret = NoReturn
  /\ addOutput(i, s)

Getters_addInput_as_Device(i, s) ==
  /\ ret = NoReturn
  /\ addInput_as_Device(i, s)

Getters_addOutput_as_Device(i, s) ==
  /\ ret = NoReturn
  /\ addOutput_as_Device(i, s)

NextGetters ==
  \/ \E i \in Devices, s \in Streams : Getters_addInput(i, s)
  \/ \E i \in Devices, s \in Streams : Getters_addOutput(i, s)
  \/ \E i \in Devices, s \in Streams : Getters_addInput_as_Device(i, s)
  \/ \E i \in Devices, s \in Streams : Getters_addOutput_as_Device(i, s)
  \/ \E i \in Devices : updateOutputs(i)
  \/ \E i \in Devices : getInputs(i)
  \/ \E i \in Devices : getOutputs(i)
  \/ \E s \in Streams : returned_push_back(s)
  \/ returned_pop_back
  \/ returned_swap
  \/ \E k \in 1..Len(ret.val), m \in HeldVals : returned_setMassFlow(k, m)
  \/ returned_release

\* Mixers and the Reactors of src/unnamed/part_000
InitGetters ==
  /\ dev \in [Devices -> {d \in NewDevices :
                 d.kind = "Mixer" \/ d.copy = "part_000"}]
  /\ flow \in [Streams -> GarbageFlows]
  /\ ordinal = [s \in Streams |-> s]
  /\ name = ConstructAll([s \in Streams |-> <<>>], Streams)
  /\ InitDevices

SpecGetters == InitGetters /\ [][NextGetters]_vars

\* StreamUnit tests: streams are constructed with an ordinal, renamed, given
\* flows and read back, next to a device that may hold them.  The call made on
\* a stream is recorded with the stream and the argument.
StreamCall(op, s, v) ==
  [op |-> op, d |-> NoDevice, res |-> "ok", s |-> s, v |-> v]

\* the streams get the ordinals b + 1, b + 2, ... for one of these b
OrdinalBases == {-2, 8, 117}
\* the flows and the name the harness passes to the setters
UnitVals == {0, 2}
NameVals == {<<"f", "e", "e", "d">>}
\* the streams the harness renames
RenamedStreams == {1}

unit_setMassFlow(s, m) ==
  /\ flow' = Stream_setMassFlow(flow, s, m)
  /\ last' = StreamCall("setMassFlow", s, m)
  /\ streak' = FALSE
  /\ UNCHANGED <<dev, name, ordinal, acc, ret>>

unit_setName(s, t) ==
  /\ name' = Stream_setName(name, s, t)
  /\ last' = StreamCall("setName", s, t)
  /\ streak' = FALSE
  /\ UNCHANGED <<dev, flow, ordinal, acc, ret>>

NextStream ==
  \/ \E s \in Streams, m \in UnitVals : unit_setMassFlow(s, m)
  \/ \E s \in RenamedStreams, t \in NameVals : unit_setName(s, t)
  \/ \E i \in Devices, s \in Streams : addInput(i, s)
  \/ \E i \in Devices, s \in Streams : addOutput(i, s)
  \/ \E i \in Devices : updateOutputs(i)

\* a Mixer(1) or a Reactor(false)
InitStream ==
  /\ dev \in [Devices -> {Mixer(1), Reactor_part_000(FALSE)}]
  /\ flow \in [Streams -> GarbageFlows]
  /\ ordinal \in {[s \in Streams |-> b + s] : b \in OrdinalBases}
  /\ name = ConstructAll([s \in Streams |-> <<>>], Streams)
  /\ InitDevices

SpecStream == InitStream /\ [][NextStream]_vars

\* MixerIntegration.SingleOutputEqualsSumOfInputs and .TwoOutputsEvenSplit:
\* Mixer d1(2) and the streams s1, s2, ...; s1->setMassFlow, s2->setMassFlow,
\* two addInput, addOutput, and then either updateOutputs (the first test) or
\* a second addOutput, updateOutputs (the second).  The tests catch nothing:
\* a call that throws ends the test body.
TestStreams == 1..(NStreams + 1)

TwoOutputs_setMassFlow(m) ==
  /\ last.op = "construct" \/ (last.op = "setMassFlow" /\ last.s = 1)
  /\ unit_setMassFlow(IF last.op = "construct" THEN 1 ELSE 2, m)

TwoOutputs_addInput(i, s) ==
  /\ \/ last.op = "setMassFlow" /\ last.s = 2
     \/ last = Call("addInput", i, "ok")
  /\ Len(acc[i].in) < 2
  /\ addInput(i, s)

TwoOutputs_addOutput(i, s) ==
  /\ \/ last = Call("addInput", i, "ok") /\ Len(acc[i].in) = 2
     \/ last = Call("addOutput", i, "ok") /\ Len(acc[i].out) = 1
  /\ addOutput(i, s)

TwoOutputs_updateOutputs(i) ==
  /\ last = Call("addOutput", i, "ok")
  /\ updateOutputs(i)

NextTwoOutputs ==
  \/ \E m \in SetVals : TwoOutputs_setMassFlow(m)
  \/ \E i \in Devices, s \in TestStreams : TwoOutputs_addInput(i, s)
  \/ \E i \in Devices, s \in TestStreams : TwoOutputs_addOutput(i, s)
  \/ \E i \in Devices : TwoOutputs_updateOutputs(i)

InitTwoOutputs ==
  /\ dev = [i \in Devices |-> Mixer(2)]
  /\ flow \in [TestStreams -> GarbageFlows]
  /\ ordinal = [s \in TestStreams |-> s]
  /\ name = ConstructAll([s \in TestStreams |-> <<>>], TestStreams)
  /\ InitDevices

SpecTwoOutputs == InitTwoOutputs /\ [][NextTwoOutputs]_vars

TypeOK ==
  /\ flow \in [Streams -> GarbageFlows]
  /\ \A i \in Devices : dev[i].kind \in {"Mixer", "Reactor"}

\* ------------------------------------------------- vocabulary of the claims
\* this step is the call op on device i
Called(op, i) == last'.op = op /\ last'.d = i
\* this step is the call op on device i and it threw nothing
Succeeded(op, i) == Called(op, i) /\ last'.res = "ok"
\* this step is a call made through a Device& or Device* to the device
ThroughDevice == "via" \in DOMAIN last'

IsMixer(d) == d.kind = "Mixer"
IsReactor(d, isDouble) == d.kind = "Reactor" /\ d.isDouble = isDouble

\* the capacities the specification gives a device
SpecInputAmount(d) == IF IsMixer(d) THEN d._inputs_count ELSE 1
SpecOutputAmount(d) ==
  IF IsMixer(d) THEN 1 ELSE IF d.isDouble THEN 2 ELSE 1

Range(q) == {q[k] : k \in 1..Len(q)}
NonNegative(f, q) == \A s \in Range(q) : f[s] >= 0
Distinct(q) == \A j, k \in 1..Len(q) : j # k => q[j] # q[k]

\* the sum of the flows over the slots q, as doubles add up
RECURSIVE TotalIn(_, _)
TotalIn(f, q) ==
  IF Len(q) = 0 THEN 0
  ELSE DoublePlus(TotalIn(f, SubSeq(q, 1, Len(q) - 1)), f[q[Len(q)]])
\* x is y / n for a count n > 0: n * x = y
IsShare(x, y, n) == DoubleTimesInt(x, n) = y

\* -------------------------------------------------------------------- C1
\* C1: a successful updateOutputs of a Mixer with one connected output and
\* non-negative input flows leaves the output's flow equal to the sum of the
\* input flows read by the call; when the output stream is not itself one of
\* the inputs, that is also the sum of the input flows after the call.
C1_MixerOutputIsSumOfInputs ==
  [][\A i \in Devices :
       (/\ Succeeded("updateOutputs", i)
        /\ IsMixer(dev[i])
        /\ Len(dev[i].outputs) = 1
        /\ NonNegative(flow, dev[i].inputs))
       => /\ flow'[dev[i].outputs[1]] = TotalIn(flow, dev[i].inputs)
          /\ (dev[i].outputs[1] \notin Range(dev[i].inputs)
                => flow'[dev[i].outputs[1]] = TotalIn(flow', dev[i].inputs))]_vars

\* a Mixer(2) with inputs carrying 1 and 1 has just set its output to 2
C1_Witness ==
  \E i \in Devices :
    /\ last = Call("updateOutputs", i, "ok")
    /\ IsMixer(dev[i])
    /\ Len(dev[i].inputs) = 2 /\ Len(dev[i].outputs) = 1
    /\ dev[i].outputs[1] \notin Range(dev[i].inputs)
    /\ flow[dev[i].inputs[1]] = 1 /\ flow[dev[i].inputs[2]] = 1
    /\ flow[dev[i].outputs[1]] = 2

\* -------------------------------------------------------------------- C2
\* C2 (as claimed): a successful updateOutputs of a Reactor(true) with its
\* input and both outputs connected and a non-negative input flow sets each
\* output to input / 2, so that the two outputs sum to the input flow.
C2_ReactorDoubleSplitsEvenly ==
  [][\A i \in Devices :
       (/\ Called("updateOutputs", i)
        /\ IsReactor(dev[i], TRUE)
        /\ Len(dev[i].inputs) = 1 /\ Len(dev[i].outputs) = 2
        /\ flow[dev[i].inputs[1]] >= 0)
       => /\ last'.res = "ok"
          /\ IsShare(flow'[dev[i].outputs[1]], flow[dev[i].inputs[1]], 2)
          /\ IsShare(flow'[dev[i].outputs[2]], flow[dev[i].inputs[1]], 2)
          /\ (Distinct(dev[i].outputs)
                => DoublePlus(flow'[dev[i].outputs[1]],
                              flow'[dev[i].outputs[2]])
                     = flow[dev[i].inputs[1]])]_vars

\* the same statement restricted to the Reactor of src/unnamed/part_000
C2_InPart000 ==
  [][\A i \in Devices :
       (/\ Called("updateOutputs", i)
        /\ IsReactor(dev[i], TRUE) /\ dev[i].copy = "part_000"
        /\ Len(dev[i].inputs) = 1 /\ Len(dev[i].outputs) = 2
        /\ flow[dev[i].inputs[1]] >= 0)
       => /\ last'.res = "ok"
          /\ IsShare(flow'[dev[i].outputs[1]], flow[dev[i].inputs[1]], 2)
          /\ IsShare(flow'[dev[i].outputs[2]], flow[dev[i].inputs[1]], 2)]_vars

\* -------------------------------------------------------------------- C3
\* C3 (as claimed): updateOutputs of a Reactor(false) with its input and its
\* output connected succeeds and sets the output flow to the input flow.
C3_ReactorSingleCopiesInput ==
  [][\A i \in Devices :
       (/\ Called("updateOutputs", i)
        /\ IsReactor(dev[i], FALSE)
        /\ Len(dev[i].inputs) = 1 /\ Len(dev[i].outputs) = 1)
       => /\ last'.res = "ok"
          /\ flow'[dev[i].outputs[1]] = flow[dev[i].inputs[1]]]_vars

\* the same statement restricted to the Reactor of src/unnamed/part_000
C3_InPart000 ==
  [][\A i \in Devices :
       (/\ Called("updateOutputs", i)
        /\ IsReactor(dev[i], FALSE) /\ dev[i].copy = "part_000"
        /\ Len(dev[i].inputs) = 1 /\ Len(dev[i].outputs) = 1)
       => /\ last'.res = "ok"
          /\ flow'[dev[i].outputs[1]] = flow[dev[i].inputs[1]]]_vars

\* -------------------------------------------------------------------- C4
\* C4 (as claimed): in every reachable state every device holds at most
\* inputAmount inputs and at most outputAmount outputs, with Mixer(n) having
\* n and 1, and Reactor(isDouble) having 1 and (2 if isDouble else 1).
C4_CapacityInvariant ==
  \A i \in Devices :
    /\ Len(dev[i].inputs) <= SpecInputAmount(dev[i])
    /\ Len(dev[i].outputs) <= SpecOutputAmount(dev[i])

\* the same statement without the Reactor(false) of src/device.cpp
C4_ExceptReactorFalseOfDeviceCpp ==
  \A i \in Devices :
    ~(IsReactor(dev[i], FALSE) /\ dev[i].copy = "device.cpp")
      => /\ Len(dev[i].inputs) <= SpecInputAmount(dev[i])
         /\ Len(dev[i].outputs) <= SpecOutputAmount(dev[i])

\* -------------------------------------------------------------------- C5
\* C5 (as claimed): every addInput call on a Mixer(n) that already has n
\* inputs throws "Too much inputs" and changes neither the device's inputs
\* and outputs nor any flow.
C5_MixerAddInputBeyondCapacity ==
  [][\A i \in Devices :
       (/\ Called("addInput", i)
        /\ IsMixer(dev[i])
        /\ Len(dev[i].inputs) = dev[i]._inputs_count)
       => /\ last'.res = "Too much inputs"
          /\ dev' = dev
          /\ flow' = flow]_vars

\* the same statement for the calls made on an expression of type Mixer
C5_ThroughMixer ==
  [][\A i \in Devices :
       (/\ Called("addInput", i) /\ ~ThroughDevice
        /\ IsMixer(dev[i])
        /\ Len(dev[i].inputs) = dev[i]._inputs_count)
       => /\ last'.res = "Too much inputs"
          /\ dev' = dev
          /\ flow' = flow]_vars

\* a full Mixer(2) has just refused a third input with the message of Device
C5_GenericMessage ==
  \E i \in Devices :
    /\ last = BaseCall("addInput", i, "INPUT STREAM LIMIT!")
    /\ IsMixer(dev[i])
    /\ dev[i]._inputs_count = 2 /\ Len(dev[i].inputs) = 2

\* -------------------------------------------------------------------- C6
\* C6 (as claimed): every addOutput call on a Mixer that already has one
\* output throws "Too much outputs" and changes neither the device's inputs
\* and outputs nor any flow; a Mixer never holds more than one output.
C6_MixerAddOutputBeyondCapacity ==
  /\ [](\A i \in Devices : IsMixer(dev[i]) => Len(dev[i].outputs) <= 1)
  /\ [][\A i \in Devices :
         (/\ Called("addOutput", i)
          /\ IsMixer(dev[i])
          /\ Len(dev[i].outputs) = 1)
         => /\ last'.res = "Too much outputs"
            /\ dev' = dev
            /\ flow' = flow]_vars

\* the same statement for the calls made on an expression of type Mixer
C6_ThroughMixer ==
  /\ [](\A i \in Devices : IsMixer(dev[i]) => Len(dev[i].outputs) <= 1)
  /\ [][\A i \in Devices :
         (/\ Called("addOutput", i) /\ ~ThroughDevice
          /\ IsMixer(dev[i])
          /\ Len(dev[i].outputs) = 1)
         => /\ last'.res = "Too much outputs"
            /\ dev' = dev
            /\ flow' = flow]_vars

\* a Mixer holding its output has just refused a second one with the message
\* of Device
C6_GenericMessage ==
  \E i \in Devices :
    /\ last = BaseCall("addOutput", i, "OUTPUT STREAM LIMIT!")
    /\ IsMixer(dev[i])
    /\ Len(dev[i].outputs) = 1

\* -------------------------------------------------------------------- C7
\* C7 (as claimed): on a Reactor, addInput with one input connected throws
\* "INPUT STREAM LIMIT!" and addOutput with outputAmount outputs connected
\* (1 for Reactor(false), 2 for Reactor(true)) throws "OUTPUT STREAM LIMIT!";
\* the failing call changes neither inputs nor outputs.
C7_ReactorGenericLimits ==
  [][\A i \in Devices :
       /\ (/\ Called("addInput", i)
           /\ dev[i].kind = "Reactor"
           /\ Len(dev[i].inputs) = 1)
          => (last'.res = "INPUT STREAM LIMIT!" /\ dev' = dev)
       /\ (/\ Called("addOutput", i)
           /\ dev[i].kind = "Reactor"
           /\ Len(dev[i].outputs) = SpecOutputAmount(dev[i]))
          => (last'.res = "OUTPUT STREAM LIMIT!" /\ dev' = dev)]_vars

\* the same statement without the Reactor(false) of src/device.cpp
C7_ExceptReactorFalseOfDeviceCpp ==
  [][\A i \in Devices :
       ~(IsReactor(dev[i], FALSE) /\ dev[i].copy = "device.cpp") =>
       /\ (/\ Called("addInput", i)
           /\ dev[i].kind = "Reactor"
           /\ Len(dev[i].inputs) = 1)
          => (last'.res = "INPUT STREAM LIMIT!" /\ dev' = dev)
       /\ (/\ Called("addOutput", i)
           /\ dev[i].kind = "Reactor"
           /\ Len(dev[i].outputs) = SpecOutputAmount(dev[i]))
          => (last'.res = "OUTPUT STREAM LIMIT!" /\ dev' = dev)]_vars

\* -------------------------------------------------------------------- C8
\* C8: updateOutputs of a Mixer with no output connected throws "Should set
\* outputs before update" whatever the number of inputs; the call reaches the
\* division (it throws nothing) only with at least one output, so the divisor
\* outputs.size() is never zero.
C8_MixerUpdateWithoutOutputs ==
  [][\A i \in Devices :
       (Called("updateOutputs", i) /\ IsMixer(dev[i]))
       => /\ (dev[i].outputs = <<>>
                => last'.res = "Should set outputs before update")
          /\ (last'.res = "ok" => Len(dev[i].outputs) > 0)]_vars

\* a Mixer with two inputs and no output has just refused to update
C8_Witness ==
  \E i \in Devices :
    /\ last = Call("updateOutputs", i, "Should set outputs before update")
    /\ IsMixer(dev[i])
    /\ Len(dev[i].inputs) = 2 /\ dev[i].outputs = <<>>

\* the same with no input connected
C8_WitnessNoInputs ==
  \E i \in Devices :
    /\ last = Call("updateOutputs", i, "Should set outputs before update")
    /\ IsMixer(dev[i])
    /\ dev[i].inputs = <<>> /\ dev[i].outputs = <<>>

\* -------------------------------------------------------------------- C9
\* C9 (as claimed): updateOutputs of a Reactor with no input, or with fewer
\* than outputAmount outputs (1 for Reactor(false), 2 for Reactor(true)),
\* throws the missing-connection error (std::out_of_range).
C9_ReactorUpdateMissingConnection ==
  [][\A i \in Devices :
       (/\ Called("updateOutputs", i)
        /\ dev[i].kind = "Reactor"
        /\ \/ Len(dev[i].inputs) < 1
           \/ Len(dev[i].outputs) < SpecOutputAmount(dev[i]))
       => last'.res = "std::out_of_range"]_vars

\* the same statement without the Reactor(false) of src/device.cpp
C9_ExceptReactorFalseOfDeviceCpp ==
  [][\A i \in Devices :
       (/\ Called("updateOutputs", i)
        /\ dev[i].kind = "Reactor"
        /\ ~(IsReactor(dev[i], FALSE) /\ dev[i].copy = "device.cpp")
        /\ \/ Len(dev[i].inputs) < 1
           \/ Len(dev[i].outputs) < SpecOutputAmount(dev[i]))
       => last'.res = "std::out_of_range"]_vars

\* ------------------------------------------------------------------- C10
\* C10 (as claimed): an updateOutputs call that throws has changed no
\* stream's mass flow.
C10_FailedUpdateChangesNoFlow ==
  [][\A i \in Devices :
       (Called("updateOutputs", i) /\ last'.res # "ok") => flow' = flow]_vars

\* the same statement for the Mixer alone
C10_ForMixer ==
  [][\A i \in Devices :
       (Called("updateOutputs", i) /\ IsMixer(dev[i]) /\ last'.res # "ok")
       => flow' = flow]_vars

\* the same statement for the Reactor of src/unnamed/part_000 alone
C10_InPart000 ==
  [][\A i \in Devices :
       (/\ Called("updateOutputs", i)
        /\ dev[i].kind = "Reactor" /\ dev[i].copy = "part_000"
        /\ last'.res # "ok")
       => flow' = flow]_vars

\* ------------------------------------------------------------------- C11
\* C11: updateOutputs of a Mixer with no input and one output connected
\* throws nothing and sets the output's flow to 0, whatever it was before.
C11_MixerNoInputsGivesZero ==
  [][\A i \in Devices :
       (/\ Called("updateOutputs", i)
        /\ IsMixer(dev[i])
        /\ dev[i].inputs = <<>> /\ Len(dev[i].outputs) = 1)
       => /\ last'.res = "ok"
          /\ flow'[dev[i].outputs[1]] = 0]_vars

\* a Mixer(2) with no input has just set its output to 0
C11_Witness ==
  \E i \in Devices :
    /\ last = Call("updateOutputs", i, "ok")
    /\ IsMixer(dev[i]) /\ dev[i]._inputs_count = 2
    /\ dev[i].inputs = <<>> /\ Len(dev[i].outputs) = 1
    /\ flow[dev[i].outputs[1]] = 0

IsPrefix(p, q) == Len(p) <= Len(q) /\ SubSeq(q, 1, Len(p)) = p

\* ------------------------------------------------------------------- C12
\* C12: at every point of every sequence of calls, getInputs() is exactly the
\* streams of the addInput calls that returned normally, in call order, and
\* getOutputs() the same for addOutput; the vector a getter has just returned
\* is that sequence.
C12_GettersReturnAcceptedInOrder ==
  \A i \in Devices :
    /\ Device_getInputs(dev[i]).val = acc[i].in
    /\ Device_getOutputs(dev[i]).val = acc[i].out
    /\ last = Call("getInputs", i, "ok") => ret.val = acc[i].in
    /\ last = Call("getOutputs", i, "ok") => ret.val = acc[i].out

\* getInputs() of a full Mixer(2) has just returned two streams in connection
\* order (not in the order of their numbers)
C12_Witness ==
  \E i \in Devices :
    /\ last = Call("getInputs", i, "ok")
    /\ IsMixer(dev[i]) /\ dev[i]._inputs_count = 2
    /\ Len(ret.val) = 2 /\ ret.val[1] > ret.val[2]
    /\ ret.val = acc[i].in

\* ------------------------------------------------------------------- C13
\* C13: a push_back, pop_back or swap on a vector obtained from getInputs() or
\* getOutputs() changes neither the device's inputs and outputs nor any flow,
\* so later getters and updateOutputs see the device as it was; setMassFlow
\* through an element of the returned vector sets the flow of the stream the
\* device holds in that slot (the elements of an unchanged returned vector are
\* the device's streams, and the setter writes the stream itself).
C13_GettersReturnSnapshot ==
  [][/\ last'.op = "writeReturned" => (dev' = dev /\ flow' = flow)
     /\ \A i \in Devices :
          /\ Device_getInputs(dev'[i]).val = acc'[i].in
          /\ Device_getOutputs(dev'[i]).val = acc'[i].out
     /\ last'.op = "setMassFlow"
          => \E k \in 1..Len(ret.val), m \in HeldVals :
               flow' = [flow EXCEPT ![ret.val[k]] = m]
     /\ (ret'.storage # "none" /\ ~ret'.touched)
          => \/ IsPrefix(ret'.val, dev'[ret'.of].inputs)
             \/ IsPrefix(ret'.val, dev'[ret'.of].outputs)]_vars

\* the caller has changed a vector of two streams it got from a Mixer, and the
\* Mixer still holds its two inputs
C13_Witness ==
  /\ last.op = "writeReturned"
  /\ ret.touched /\ ret.storage = "copy"
  /\ IsMixer(dev[ret.of]) /\ Len(dev[ret.of].inputs) = 2
  /\ ret.val # dev[ret.of].inputs /\ ret.val # dev[ret.of].outputs

\* ------------------------------------------------------------------- C14
\* C14 (as claimed): on every device and every wiring, an updateOutputs that
\* succeeds right after a successful updateOutputs of the same device, with no
\* other call in between, leaves every stream's flow as the first call left
\* it, also when a stream is both an input and an output of the device.
C14_UpdateTwiceIsUpdateOnce ==
  [][\A i \in Devices :
       (/\ Succeeded("updateOutputs", i)
        /\ last = Call("updateOutputs", i, "ok"))
       => flow' = flow]_vars

\* C14 (amended): the same, for the wirings in which no stream is both an
\* input and an output of the device.
C14_IdempotentWhenNoStreamIsBoth ==
  [][\A i \in Devices :
       (/\ Succeeded("updateOutputs", i)
        /\ last = Call("updateOutputs", i, "ok")
        /\ Range(dev[i].inputs) \cap Range(dev[i].outputs) = {})
       => flow' = flow]_vars

\* a Mixer with two inputs carrying 1 and 1 and a separate output has just
\* succeeded in a second updateOutputs in a row
C14_Witness ==
  \E i \in Devices :
    /\ streak /\ last = Call("updateOutputs", i, "ok")
    /\ IsMixer(dev[i])
    /\ Len(dev[i].inputs) = 2 /\ Len(dev[i].outputs) = 1
    /\ Range(dev[i].inputs) \cap Range(dev[i].outputs) = {}
    /\ flow[dev[i].inputs[1]] = 1 /\ flow[dev[i].inputs[2]] = 1
    /\ flow[dev[i].outputs[1]] = 2

\* ------------------------------------------------------------------- C15
\* C15 (as claimed): right after every successful updateOutputs, on any device
\* and any wiring, the flows over the device's output slots sum to the flows
\* over its input slots.
C15_MassConservation ==
  [][\A i \in Devices :
       Succeeded("updateOutputs", i)
       => TotalIn(flow', dev[i].outputs) = TotalIn(flow', dev[i].inputs)]_vars

\* the same statement for the Mixer and the Reactor of src/unnamed/part_000,
\* on the wirings in which no stream is both an input and an output
C15_InPart000NoStreamIsBoth ==
  [][\A i \in Devices :
       (/\ Succeeded("updateOutputs", i)
        /\ IsMixer(dev[i]) \/ dev[i].copy = "part_000"
        /\ Range(dev[i].inputs) \cap Range(dev[i].outputs) = {})
       => TotalIn(flow', dev[i].outputs) = TotalIn(flow', dev[i].inputs)]_vars

\* ------------------------------------------------------------------- C16
\* C16 (as claimed): on a Mixer(2), addInput, addInput, addOutput, addOutput
\* all return normally, updateOutputs returns normally and sets each of the
\* two outputs to half the sum of the input flows.
C16_TwoOutputsEvenSplit ==
  [][\A i \in Devices :
       /\ (Called("addInput", i) \/ Called("addOutput", i)) => last'.res = "ok"
       /\ Called("updateOutputs", i)
            => /\ last'.res = "ok"
               /\ Len(dev[i].outputs) = 2
               /\ \A k \in 1..Len(dev[i].outputs) :
                    IsShare(flow'[dev[i].outputs[k]],
                            TotalIn(flow, dev[i].inputs), 2)]_vars

\* C16 (amended): on a Mixer(2), addInput, addInput and the first addOutput
\* return normally; the second addOutput throws "Too much outputs" and changes
\* nothing, so that the Mixer never holds two outputs and no updateOutputs
\* follows; an updateOutputs made after the first addOutput returns normally
\* with the one output set to the whole sum of the input flows, and no other
\* stream changed.
C16_SecondOutputRefused ==
  /\ [](\A i \in Devices : Len(dev[i].outputs) <= 1)
  /\ [][\A i \in Devices :
         /\ Called("addInput", i) => last'.res = "ok"
         /\ (Called("addOutput", i) /\ dev[i].outputs = <<>>)
              => last'.res = "ok"
         /\ (Called("addOutput", i) /\ dev[i].outputs # <<>>)
              => /\ last'.res = "Too much outputs"
                 /\ dev' = dev /\ flow' = flow
         /\ Called("updateOutputs", i)
              => /\ last'.res = "ok"
                 /\ last = Call("addOutput", i, "ok")
                 /\ Len(dev[i].outputs) = 1
                 /\ flow'[dev[i].outputs[1]] = TotalIn(flow, dev[i].inputs)
                 /\ \A s \in TestStreams \ {dev[i].outputs[1]} :
                      flow'[s] = flow[s]]_vars

\* the second addOutput has just thrown: the Mixer holds the two inputs, set
\* to 2 and 1, and the first output
C16_Witness ==
  \E i \in Devices :
    /\ last = Call("addOutput", i, "Too much outputs")
    /\ dev[i]._inputs_count = 2
    /\ acc[i].in = <<1, 2>> /\ acc[i].out = <<3>>
    /\ dev[i].inputs = <<1, 2>> /\ dev[i].outputs = <<3>>
    /\ flow[1] = 2 /\ flow[2] = 1

\* ------------------------------------------------------------------- C17
\* C17 (as claimed): addInput with fewer inputs connected than the device's
\* capacity (n for Mixer(n), 1 for a Reactor) returns normally and appends the
\* stream at the end of inputs; addOutput with fewer outputs connected than
\* the capacity (1 for a Mixer and Reactor(false), 2 for Reactor(true)) does
\* the same for outputs; at capacity the call fails, so a device accepts
\* exactly that many inputs and outputs.
C17_BelowCapacitySucceeds ==
  [][\A i \in Devices :
       /\ (Called("addInput", i)
           /\ Len(dev[i].inputs) < SpecInputAmount(dev[i]))
          => /\ last'.res = "ok"
             /\ Len(dev'[i].inputs) = Len(dev[i].inputs) + 1
             /\ IsPrefix(dev[i].inputs, dev'[i].inputs)
             /\ dev'[i].inputs = acc'[i].in
       /\ (Called("addOutput", i)
           /\ Len(dev[i].outputs) < SpecOutputAmount(dev[i]))
          => /\ last'.res = "ok"
             /\ Len(dev'[i].outputs) = Len(dev[i].outputs) + 1
             /\ IsPrefix(dev[i].outputs, dev'[i].outputs)
             /\ dev'[i].outputs = acc'[i].out
       /\ (Called("addInput", i)
           /\ Len(dev[i].inputs) >= SpecInputAmount(dev[i]))
          => last'.res # "ok"
       /\ (Called("addOutput", i)
           /\ Len(dev[i].outputs) >= SpecOutputAmount(dev[i]))
          => last'.res # "ok"]_vars

\* the same statement without the Reactor(false) of src/device.cpp and
\* without the calls made on a Mixer through a Device& or Device*
C17_OwnTypeExceptReactorFalseOfDeviceCpp ==
  [][\A i \in Devices :
       (/\ ~(IsReactor(dev[i], FALSE) /\ dev[i].copy = "device.cpp")
        /\ ~(ThroughDevice /\ IsMixer(dev[i]))) =>
       /\ (Called("addInput", i)
           /\ Len(dev[i].inputs) < SpecInputAmount(dev[i]))
          => /\ last'.res = "ok"
             /\ Len(dev'[i].inputs) = Len(dev[i].inputs) + 1
             /\ IsPrefix(dev[i].inputs, dev'[i].inputs)
             /\ dev'[i].inputs = acc'[i].in
       /\ (Called("addOutput", i)
           /\ Len(dev[i].outputs) < SpecOutputAmount(dev[i]))
          => /\ last'.res = "ok"
             /\ Len(dev'[i].outputs) = Len(dev[i].outputs) + 1
             /\ IsPrefix(dev[i].outputs, dev'[i].outputs)
             /\ dev'[i].outputs = acc'[i].out
       /\ (Called("addInput", i)
           /\ Len(dev[i].inputs) >= SpecInputAmount(dev[i]))
          => last'.res # "ok"
       /\ (Called("addOutput", i)
           /\ Len(dev[i].outputs) >= SpecOutputAmount(dev[i]))
          => last'.res # "ok"]_vars

\* ------------------------------------------------------------------- C18
\* reading a decimal numeral back, digit by digit
DigitValue(c) ==
  CASE c = "0" -> 0 [] c = "1" -> 1 [] c = "2" -> 2 [] c = "3" -> 3
    [] c = "4" -> 4 [] c = "5" -> 5 [] c = "6" -> 6 [] c = "7" -> 7
    [] c = "8" -> 8 [] c = "9" -> 9

RECURSIVE NumeralValue(_)
NumeralValue(q) ==
  IF q = <<>> THEN 0
  ELSE 10 * NumeralValue(SubSeq(q, 1, Len(q) - 1)) + DigitValue(q[Len(q)])

\* q is the decimal numeral of n >= 0: digits only, no leading zero
IsNumeralOf(q, n) ==
  /\ q # <<>>
  /\ \A k \in 1..Len(q) :
       q[k] \in {"0", "1", "2", "3", "4", "5", "6", "7", "8", "9"}
  /\ Len(q) > 1 => q[1] # "0"
  /\ NumeralValue(q) = n

\* q is the decimal form of the int k
IsDecimalOf(q, k) ==
  IF k < 0 THEN q # <<>> /\ q[1] = "-" /\ IsNumeralOf(Tail(q), 0 - k)
  ELSE IsNumeralOf(q, k)

\* C18: a Stream constructed with ordinal k is named "s" followed by the
\* decimal form of k, and keeps that name until setName is called on it; right
\* after setMassFlow(v) on a stream getMassFlow() returns v, right after
\* setName(t) getName() returns t; a stream's flow changes only by setMassFlow
\* on that stream or by an updateOutputs of a device holding it as an output,
\* and its name only by setName on that stream.
C18_StreamNameAndRoundTrips ==
  /\ \A s \in Streams :
       /\ Stream_getName(name, s) # <<>>
       /\ Head(Stream_getName(name, s)) = "s"
       /\ IsDecimalOf(Tail(Stream_getName(name, s)), ordinal[s])
  /\ [][/\ last'.op = "setMassFlow"
           => Stream_getMassFlow(flow', last'.s) = last'.v
        /\ last'.op = "setName"
           => Stream_getName(name', last'.s) = last'.v
        /\ \A s \in Streams :
             Stream_getMassFlow(flow', s) # Stream_getMassFlow(flow, s)
               => \/ last'.op = "setMassFlow" /\ last'.s = s
                  \/ /\ last'.op = "updateOutputs"
                     /\ s \in Range(dev[last'.d].outputs)
        /\ \A s \in Streams :
             Stream_getName(name', s) # Stream_getName(name, s)
               => last'.op = "setName" /\ last'.s = s]_vars

\* the stream constructed with ordinal 10 is still named "s10" and has just
\* been given the flow 2, which it reads back
C18_Witness ==
  \E s \in Streams :
    /\ ordinal[s] = 10
    /\ Stream_getName(name, s) = <<"s", "1", "0">>
    /\ last = StreamCall("setMassFlow", s, 2)
    /\ Stream_getMassFlow(flow, s) = 2

\* ------------------------------------------------------------------- C19
\* every input slot and every output slot the specification gives the device
\* is filled
FullyWired(d) ==
  /\ Len(d.inputs) = SpecInputAmount(d)
  /\ Len(d.outputs) = SpecOutputAmount(d)

\* C19 (as claimed): every updateOutputs call made while some input slot
\* below inputAmount or some output slot below outputAmount is unfilled (n and
\* 1 for Mixer(n); 1 and 1 or 2 for a Reactor) fails.
C19_UpdateOnlyFromFullyWired ==
  [][\A i \in Devices :
       (/\ Called("updateOutputs", i)
        /\ \/ Len(dev[i].inputs) < SpecInputAmount(dev[i])
           \/ Len(dev[i].outputs) < SpecOutputAmount(dev[i]))
       => last'.res # "ok"]_vars

\* the Reactor(false) of src/device.cpp, whose constructor stored no
\* outputAmount and whose outputAmount reads 0, has its input and no output
\* and its updateOutputs has just returned normally
C19_ReactorUpdatedWithoutOutput ==
  \E i \in Devices :
    /\ last = Call("updateOutputs", i, "ok")
    /\ IsReactor(dev[i], FALSE) /\ dev[i].copy = "device.cpp"
    /\ dev[i].outputAmount = 0
    /\ Len(dev[i].inputs) = 1 /\ dev[i].outputs = <<>>

\* the same statement for the Reactors other than the Reactor(false) of
\* src/device.cpp: updateOutputs fails exactly when the input or one of the
\* 1 or 2 outputs is missing
C19_ReactorExceptReactorFalseOfDeviceCpp ==
  [][\A i \in Devices :
       (/\ Called("updateOutputs", i)
        /\ dev[i].kind = "Reactor"
        /\ ~(IsReactor(dev[i], FALSE) /\ dev[i].copy = "device.cpp"))
       => (last'.res # "ok" <=> ~FullyWired(dev[i]))]_vars

\* updateOutputs of a Mixer fails exactly when no output is connected,
\* whatever the number of inputs
C19_MixerFailsExactlyWithoutOutput ==
  [][\A i \in Devices :
       (Called("updateOutputs", i) /\ IsMixer(dev[i]))
       => (last'.res # "ok" <=> dev[i].outputs = <<>>)]_vars

\* ------------------------------------------------------------------- C20
\* C20 (as claimed): every call other than an addInput / addOutput that
\* returns normally leaves the device's inputs and outputs as they were; the
\* inputs and outputs only grow at the end; a FullyWired device stays
\* FullyWired and every further addInput / addOutput on it fails.
C20_WiringOnlyForward ==
  [][\A i \in Devices :
       /\ ~(Succeeded("addInput", i) \/ Succeeded("addOutput", i))
            => /\ dev'[i].inputs = dev[i].inputs
               /\ dev'[i].outputs = dev[i].outputs
       /\ IsPrefix(dev[i].inputs, dev'[i].inputs)
       /\ IsPrefix(dev[i].outputs, dev'[i].outputs)
       /\ FullyWired(dev[i])
            => /\ FullyWired(dev'[i])
               /\ (Called("addInput", i) \/ Called("addOutput", i))
                    => last'.res # "ok"]_vars

\* the same statement without the Reactor(false) of src/device.cpp
C20_ExceptReactorFalseOfDeviceCpp ==
  [][\A i \in Devices :
       ~(IsReactor(dev[i], FALSE) /\ dev[i].copy = "device.cpp") =>
       /\ ~(Succeeded("addInput", i) \/ Succeeded("addOutput", i))
            => /\ dev'[i].inputs = dev[i].inputs
               /\ dev'[i].outputs = dev[i].outputs
       /\ IsPrefix(dev[i].inputs, dev'[i].inputs)
       /\ IsPrefix(dev[i].outputs, dev'[i].outputs)
       /\ FullyWired(dev[i])
            => /\ FullyWired(dev'[i])
               /\ (Called("addInput", i) \/ Called("addOutput", i))
                    => last'.res # "ok"]_vars

\* ------------------------------------------------------------------- C21
\* C21 (as claimed): every updateOutputs of a fully wired device returns
\* normally and leaves each output with the device's law applied to the input
\* flows as they are when the call is made (Mixer: their sum; Reactor: the
\* input divided by 1 or 2), whatever the inputs and the outputs held before.
C21_UpdateRecomputesFromCurrentInputs ==
  [][\A i \in Devices :
       (/\ Called("updateOutputs", i)
        /\ FullyWired(dev[i]))
       => /\ last'.res = "ok"
          /\ \A k \in 1..Len(dev[i].outputs) :
               IF IsMixer(dev[i])
                 THEN flow'[dev[i].outputs[k]] = TotalIn(flow, dev[i].inputs)
                 ELSE IsShare(flow'[dev[i].outputs[k]],
                              flow[dev[i].inputs[1]],
                              SpecOutputAmount(dev[i]))]_vars

\* the same statement for the Mixer and the Reactor of src/unnamed/part_000
C21_InPart000 ==
  [][\A i \in Devices :
       (/\ Called("updateOutputs", i)
        /\ FullyWired(dev[i])
        /\ IsMixer(dev[i]) \/ dev[i].copy = "part_000")
       => /\ last'.res = "ok"
          /\ \A k \in 1..Len(dev[i].outputs) :
               IF IsMixer(dev[i])
                 THEN flow'[dev[i].outputs[k]] = TotalIn(flow, dev[i].inputs)
                 ELSE IsShare(flow'[dev[i].outputs[k]],
                              flow[dev[i].inputs[1]],
                              SpecOutputAmount(dev[i]))]_vars

\* ------------------------------------------------------------------- C22
\* C22 (as claimed): on every device and wiring, updateOutputs leaves the flow
\* of each stream connected to an input slot, the flow of each stream not
\* connected to the device and the names of all streams as they were.
C22_UpdateKeepsInputs ==
  [][\A i \in Devices :
       Called("updateOutputs", i)
       => /\ \A s \in Range(dev[i].inputs) : flow'[s] = flow[s]
          /\ \A s \in Streams \ (Range(dev[i].inputs) \cup Range(dev[i].outputs)) :
               flow'[s] = flow[s]
          /\ name' = name]_vars

\* C22 (amended): updateOutputs, whether it returns normally or throws,
\* leaves the flow of every stream that is in no output slot of the device,
\* the names of all streams and the device's inputs and outputs as they were;
\* a stream connected to an input slot keeps its flow unless it is also in an
\* output slot of the device.
C22_UpdateWritesOnlyOutputs ==
  [][\A i \in Devices :
       Called("updateOutputs", i)
       => /\ \A s \in Streams \ Range(dev[i].outputs) :
               Stream_getMassFlow(flow', s) = Stream_getMassFlow(flow, s)
          /\ \A s \in Streams :
               Stream_getName(name', s) = Stream_getName(name, s)
          /\ dev' = dev]_vars

\* a Reactor(true) has just split its input 2 into 1 and 1: the input still
\* reads 2 and is still named after its ordinal
C22_Witness ==
  \E i \in Devices :
    /\ last = Call("updateOutputs", i, "ok")
    /\ IsReactor(dev[i], TRUE)
    /\ Len(dev[i].inputs) = 1 /\ Len(dev[i].outputs) = 2
    /\ dev[i].inputs[1] \notin Range(dev[i].outputs)
    /\ flow[dev[i].inputs[1]] = 2
    /\ flow[dev[i].outputs[1]] = 1 /\ flow[dev[i].outputs[2]] = 1
    /\ name[dev[i].inputs[1]] = <<"s">> \o to_string(ordinal[dev[i].inputs[1]])

\* ------------------------------------------------------------------- C23
\* A chain of two devices: the harness builds a Mixer and a Reactor, connects
\* the first streams to the Mixer's inputs, the next one as the Mixer's
\* output and the Reactor's input, and streams of its choice as the Reactor's
\* outputs; then it sets input flows and calls updateOutputs on either device
\* in any order.
ChainDevices == {"mixer", "reactor"}
ChainStreams == 1..(NStreams + 1)

Chain_addInput_mixer ==
  /\ last.op \in {"construct", "addInput"}
  /\ dev["reactor"].inputs = <<>>
  /\ Len(dev["mixer"].inputs) < dev["mixer"]._inputs_count
  /\ addInput("mixer", Len(dev["mixer"].inputs) + 1)

Chain_addOutput_mixer ==
  /\ last = Call("addInput", "mixer", "ok")
  /\ Len(dev["mixer"].inputs) = dev["mixer"]._inputs_count
  /\ addOutput("mixer", Len(dev["mixer"].inputs) + 1)

Chain_addInput_reactor ==
  /\ last = Call("addOutput", "mixer", "ok")
  /\ addInput("reactor", dev["mixer"].outputs[1])

Chain_addOutput_reactor(s) ==
  /\ last \in {Call("addInput", "reactor", "ok"),
                Call("addOutput", "reactor", "ok")}
  /\ Len(dev["reactor"].outputs) < SpecOutputAmount(dev["reactor"])
  /\ addOutput("reactor", s)

\* the harness has made its last connection call
Chain_Ready ==
  \/ last.op \in {"updateOutputs", "setMassFlow"}
  \/ /\ last.op = "addOutput" /\ last.d = "reactor"
     /\ \/ last.res # "ok"
        \/ Len(dev["reactor"].outputs) = SpecOutputAmount(dev["reactor"])

Chain_updateOutputs(i) ==
  /\ Chain_Ready
  /\ updateOutputs(i)

Chain_setMassFlow(s, m) ==
  /\ Chain_Ready
  /\ s \in Range(dev["mixer"].inputs)
  /\ setMassFlow(s, m)

NextChain ==
  \/ Chain_addInput_mixer
  \/ Chain_addOutput_mixer
  \/ Chain_addInput_reactor
  \/ \E s \in ChainStreams : Chain_addOutput_reactor(s)
  \/ \E i \in ChainDevices : Chain_updateOutputs(i)
  \/ \E s \in ChainStreams, m \in SetVals : Chain_setMassFlow(s, m)

InitChain ==
  /\ dev \in {[i \in ChainDevices |-> IF i = "mixer" THEN m ELSE r] :
                m \in {Mixer(n) : n \in 1..MaxMixerInputs},
                r \in {d \in NewDevices :
                         d.kind = "Reactor"
                           /\ (d.isDouble \/ d.copy = "part_000")}}
  /\ flow \in [ChainStreams -> GarbageFlows]
  /\ ordinal = [s \in ChainStreams |-> s]
  /\ name = ConstructAll([s \in ChainStreams |-> <<>>], ChainStreams)
  /\ acc = [i \in ChainDevices |-> [in |-> <<>>, out |-> <<>>]]
  /\ ret = NoReturn
  /\ streak = FALSE
  /\ last = Call("construct", NoDevice, "ok")

SpecChain == InitChain /\ [][NextChain]_vars

\* the Mixer and the Reactor are fully wired and the Mixer's output is the
\* Reactor's input
ChainBuilt ==
  /\ FullyWired(dev["mixer"]) /\ FullyWired(dev["reactor"])
  /\ dev["mixer"].outputs[1] = dev["reactor"].inputs[1]

\* C23 (as claimed): in such a chain, a Reactor updateOutputs made right
\* after a Mixer updateOutputs returns normally and leaves the Reactor's
\* output flows summing to the Mixer's input flows; in the opposite order,
\* after the Mixer's updateOutputs the Reactor's outputs are still its law
\* applied to the flow the shared stream had before that call.
C23_ChainOrder ==
  [][(ChainBuilt)
     => /\ (/\ Called("updateOutputs", "reactor")
            /\ last = Call("updateOutputs", "mixer", "ok"))
           => /\ last'.res = "ok"
              /\ TotalIn(flow', dev["reactor"].outputs)
                   = TotalIn(flow', dev["mixer"].inputs)
        /\ (/\ Called("updateOutputs", "mixer")
            /\ last = Call("updateOutputs", "reactor", "ok"))
           => \A k \in 1..Len(dev["reactor"].outputs) :
                IsShare(flow'[dev["reactor"].outputs[k]],
                        flow[dev["reactor"].inputs[1]],
                        SpecOutputAmount(dev["reactor"]))]_vars

\* the same statement for the Reactor of src/unnamed/part_000, in chains whose
\* slots hold pairwise different streams
C23_InPart000DistinctStreams ==
  [][(ChainBuilt
      /\ dev["reactor"].copy = "part_000"
      /\ Distinct(dev["mixer"].inputs \o dev["mixer"].outputs
                    \o dev["reactor"].outputs))
     => /\ (/\ Called("updateOutputs", "reactor")
            /\ last = Call("updateOutputs", "mixer", "ok"))
           => /\ last'.res = "ok"
              /\ TotalIn(flow', dev["reactor"].outputs)
                   = TotalIn(flow', dev["mixer"].inputs)
        /\ (/\ Called("updateOutputs", "mixer")
            /\ last = Call("updateOutputs", "reactor", "ok"))
           => \A k \in 1..Len(dev["reactor"].outputs) :
                IsShare(flow'[dev["reactor"].outputs[k]],
                        flow[dev["reactor"].inputs[1]],
                        SpecOutputAmount(dev["reactor"]))]_vars

\* the opposite order has left the Reactor of src/unnamed/part_000 with
\* outputs that do not sum to the Mixer's inputs
C23_OrderMatters ==
  /\ ChainBuilt
  /\ dev["reactor"].copy = "part_000"
  /\ Distinct(dev["mixer"].inputs \o dev["mixer"].outputs
                \o dev["reactor"].outputs)
  /\ last = Call("updateOutputs", "mixer", "ok")
  /\ TotalIn(flow, dev["reactor"].outputs) # TotalIn(flow, dev["mixer"].inputs)

\* ------------------------------------------------------------------- C24
\* A caller that passes only non-negative flows and reads no stream it has
\* not set: it first sets every stream, in the order of construction, then
\* connects, sets and updates as it likes.
NonNegVals == {0} \cup {m \in SetVals : m >= 0} \cup {Inf}

\* every stream has been set (the first round of setMassFlow calls is over)
NonNeg_AllSet ==
  /\ last.op # "construct"
  /\ "s" \in DOMAIN last => last.s = NStreams

NonNeg_firstSet(m) ==
  /\ ~NonNeg_AllSet
  /\ unit_setMassFlow(IF last.op = "construct" THEN 1 ELSE last.s + 1, m)

NonNeg_setMassFlow(s, m) ==
  /\ NonNeg_AllSet
  /\ setMassFlow(s, m)

NonNeg_addInput(i, s) ==
  /\ NonNeg_AllSet
  /\ addInput(i, s)

NonNeg_addOutput(i, s) ==
  /\ NonNeg_AllSet
  /\ addOutput(i, s)

NonNeg_updateOutputs(i) ==
  /\ NonNeg_AllSet
  /\ updateOutputs(i)

NextNonNeg ==
  \/ \E m \in NonNegVals : NonNeg_firstSet(m)
  \/ \E s \in Streams, m \in NonNegVals : NonNeg_setMassFlow(s, m)
  \/ \E i \in Devices, s \in Streams : NonNeg_addInput(i, s)
  \/ \E i \in Devices, s \in Streams : NonNeg_addOutput(i, s)
  \/ \E i \in Devices : NonNeg_updateOutputs(i)

\* any device
InitNonNeg ==
  /\ dev \in [Devices -> NewDevices]
  /\ flow \in [Streams -> GarbageFlows]
  /\ ordinal = [s \in Streams |-> s]
  /\ name = ConstructAll([s \in Streams |-> <<>>], Streams)
  /\ InitDevices

SpecNonNeg == InitNonNeg /\ [][NextNonNeg]_vars

\* every stream's flow is non-negative (false of a NaN)
AllNonNegative == \A s \in Streams : Stream_getMassFlow(flow, s) >= 0

\* C24 (as claimed): when the caller passes only non-negative values to
\* setMassFlow and has set every stream, then after any sequence of
\* connection, setMassFlow and updateOutputs calls on a Mixer or a Reactor
\* every stream's mass flow is non-negative.
C24_NonNegativePreserved == NonNeg_AllSet => AllNonNegative

\* the same statement for the Mixer and the Reactor of src/unnamed/part_000
C24_InPart000 ==
  (/\ NonNeg_AllSet
   /\ \A i \in Devices : IsMixer(dev[i]) \/ dev[i].copy = "part_000")
  => AllNonNegative

\* the same statement for every device, as long as no stream holds +infinity
\* or NaN
C24_WhileFinite ==
  NonNeg_AllSet
  => \A s \in Streams : IsFinite(flow[s]) => flow[s] >= 0
====
